---- MODULE Spec2Model ----
(***************************************************************************)
(* Model of DIContext (awilix-modular): recursive, memoised registration   *)
(* of modules into container scopes, with per-module dependency sorting,   *)
(* import/export merging, validation errors and hook dispatch.             *)
(*                                                                         *)
(* The registration pass is synchronous and single-threaded, so one call   *)
(* of registerModules is one action.  What happens inside the call, in     *)
(* program order, is recorded in the event log `log`; statements about the *)
(* order of effects inside a call are statements about that log.           *)
(***************************************************************************)
EXTENDS Integers, Sequences, FiniteSets, TLC

VARIABLES
    defs,                   \* the module definitions the caller wrote (immutable input)
    options,                \* DIContext options: which callbacks are configured
    moduleScopes,           \* DIContext.moduleScopes: module name -> scope id
    scopes,                 \* the container's scopes: scope id -> (key -> registration)
    registeredControllers,  \* DIContext.registeredControllers: controller -> module name
    log,                    \* every effect of every call so far, in program order
    outcome,                \* what the last registerModules call returned or threw
    regsLeft                \* how many more top-level registrations the caller makes

vars == <<defs, options, moduleScopes, scopes, registeredControllers, log, outcome, regsLeft>>

(***************************************************************************)
(* Bounds of the model.                                                    *)
(***************************************************************************)
\* Total number of inject references written in one module's providers.
MaxEdges == 3
\* Total number of modules handed to registerModules over the context's life.
MaxRegs == 2
\* Number of nested registerProvidersWithImports calls followed.  A chain of
\* imports over distinct, unmemoised modules is never longer than the number
\* of module definitions, so a deeper nesting has re-entered a module whose
\* registration is in progress.
MaxDepth == 4

\* Provider keys.  "1" is an array-index key: JavaScript objects list such
\* keys first, in ascending numeric order, whatever the insertion order.
Keys == {"1", "a", "b"}

(***************************************************************************)
(* Sequence helpers.                                                       *)
(***************************************************************************)
Range(s) == {s[i] : i \in DOMAIN s}

Includes(s, x) == \E i \in DOMAIN s : s[i] = x

RECURSIVE Flatten(_)
Flatten(ss) == IF ss = <<>> THEN <<>> ELSE Head(ss) \o Flatten(Tail(ss))

\* s with only the first occurrence of each element kept
RECURSIVE FirstOccurrences(_)
FirstOccurrences(s) ==
    IF s = <<>> THEN <<>>
    ELSE LET init == FirstOccurrences(SubSeq(s, 1, Len(s) - 1))
             last == s[Len(s)]
         IN  IF Includes(init, last) THEN init ELSE Append(init, last)

(***************************************************************************)
(* JavaScript semantics the code relies on.                                *)
(***************************************************************************)
\* The numeric value of an array-index property key, -1 for any other key.
ArrayIndex(k) ==
    CASE k = "0" -> 0 [] k = "1" -> 1 [] k = "2" -> 2 [] OTHER -> -1

\* Own property keys of an object whose keys were inserted in the order ins:
\* array-index keys ascending, then the other string keys in insertion order.
OwnPropertyKeys(ins) ==
    LET once == FirstOccurrences(ins)
    IN  SortSeq(SelectSeq(once, LAMBDA k : ArrayIndex(k) >= 0),
                LAMBDA x, y : ArrayIndex(x) < ArrayIndex(y))
        \o SelectSeq(once, LAMBDA k : ArrayIndex(k) < 0)

\* `if (x)` on a string: the empty string is falsy.
Truthy(s) == s # ""

(***************************************************************************)
(* Module definitions (StaticModule).                                      *)
(*   providers: sequence of [key, kind, inject] in the order written       *)
(*   exports:   sequence of keys in the order written                      *)
(***************************************************************************)
ProviderKinds == {"resolver", "factory", "classProvider", "classConstructor"}

\* An options object (BuildResolverOptions): option name -> value, for the
\* names that are set.  NoOptions is {} (or an absent providerOptions).
NoOptions == <<>>

\* {...a, ...b}
Merge(a, b) ==
    [k \in DOMAIN a \cup DOMAIN b |-> IF k \in DOMAIN b THEN b[k] ELSE a[k]]

\* opts: for a class provider the properties next to useClass, for a
\* resolver the configuration the handle was built with.
Provider(key, kind, inject) ==
    [key |-> key, kind |-> kind, inject |-> inject, opts |-> NoOptions]

isFactoryProvider(p) == p.kind = "factory"

\* Object.keys(m.providers)
ProviderKeys(m) == OwnPropertyKeys([i \in DOMAIN m.providers |-> m.providers[i].key])

\* m.providers[key]
ProviderOf(m, key) ==
    LET i == CHOOSE j \in DOMAIN m.providers : m.providers[j].key = key
    IN  m.providers[i]

\* Object.entries(m.providers)
ProviderEntries(m) ==
    LET ks == ProviderKeys(m) IN [i \in DOMAIN ks |-> ProviderOf(m, ks[i])]

\* Object.keys(m.exports)
ExportKeys(m) == OwnPropertyKeys(m.exports)

(***************************************************************************)
(* Errors.  The code throws plain Error objects; the kind is the message   *)
(* template, `module` and `keys` are what the message interpolates.        *)
(***************************************************************************)
Err(kind, module, keys, other) ==
    [kind |-> kind, module |-> module, keys |-> keys, other |-> other]

NoError == Err("none", "", <<>>, "")

(***************************************************************************)
(* Dependency graph and topological sort (one module's local providers).   *)
(* A JavaScript Map keeps insertion order: both maps are created over      *)
(* Object.keys(m.providers) and later only updated, so their iteration     *)
(* order is ProviderKeys(m).                                               *)
(***************************************************************************)
initializeDepGraph(m) ==
    [keys     |-> ProviderKeys(m),
     graph    |-> [k \in Range(ProviderKeys(m)) |-> <<>>],
     inDegree |-> [k \in Range(ProviderKeys(m)) |-> 0],
     error    |-> NoError]

\* All (key, dep) pairs in the order buildDepGraph visits them.
InjectPairs(m) ==
    LET es == ProviderEntries(m)
    IN  Flatten([i \in DOMAIN es |->
            IF isFactoryProvider(es[i])
            THEN [j \in DOMAIN es[i].inject |-> <<es[i].key, es[i].inject[j]>>]
            ELSE <<>>])

RECURSIVE AddEdges(_, _, _)
AddEdges(m, acc, pairs) ==
    IF pairs = <<>> THEN acc
    ELSE LET key == Head(pairs)[1]
             dep == Head(pairs)[2]
         IN  IF dep \notin DOMAIN acc.graph
             THEN [acc EXCEPT !.error =
                      Err("MissingDependencyReferenceError", m.name, <<dep>>, "")]
             ELSE AddEdges(m,
                           [acc EXCEPT !.graph[dep] = Append(@, key),
                                       !.inDegree[key] = @ + 1],
                           Tail(pairs))

\* Variant for C6: an inject key that is no local provider adds no edge.
buildDepGraphSkippingUnknown(m, depsGraph) ==
    AddEdges(m, depsGraph,
             SelectSeq(InjectPairs(m), LAMBDA pr : pr[2] \in DOMAIN depsGraph.graph))

buildDepGraph(m, depsGraph) == AddEdges(m, depsGraph, InjectPairs(m))

initializeQueue(depsGraph) ==
    SelectSeq(depsGraph.keys, LAMBDA k : depsGraph.inDegree[k] = 0)

RECURSIVE Decrement(_, _)
Decrement(inDegree, deps) ==
    IF deps = <<>> THEN inDegree
    ELSE Decrement([inDegree EXCEPT ![Head(deps)] = @ - 1], Tail(deps))

RECURSIVE sortProviderKeysTopologically(_, _, _)
sortProviderKeysTopologically(depsGraph, queue, result) ==
    IF queue = <<>> \/ ~Truthy(Head(queue)) THEN result
    ELSE LET current  == Head(queue)
             deps     == depsGraph.graph[current]
             inDegree == Decrement(depsGraph.inDegree, deps)
         IN  sortProviderKeysTopologically(
                 [depsGraph EXCEPT !.inDegree = inDegree],
                 Tail(queue) \o SelectSeq(deps, LAMBDA d : inDegree[d] = 0),
                 Append(result, current))

ensureNoCyclicDependencies(m, sortedKeys) ==
    LET providerKeys == ProviderKeys(m)
    IN  IF Len(sortedKeys) # Len(providerKeys)
        THEN Err("CircularDependencyError", m.name,
                 SelectSeq(providerKeys, LAMBDA k : ~Includes(sortedKeys, k)), "")
        ELSE NoError

\* [error, order]: what sortProvidersByDependencies throws, or else the keys
\* of the object it returns, in the order Object.entries lists them.
sortProvidersByDependencies(m) ==
    LET depsGraph == buildDepGraph(m, initializeDepGraph(m))
    IN  IF depsGraph.error # NoError
        THEN [error |-> depsGraph.error, order |-> <<>>]
        ELSE LET sortedKeys == sortProviderKeysTopologically(
                                   depsGraph, initializeQueue(depsGraph), <<>>)
                 cyc        == ensureNoCyclicDependencies(m, sortedKeys)
             IN  IF cyc # NoError
                 THEN [error |-> cyc, order |-> <<>>]
                 ELSE [error |-> NoError, order |-> OwnPropertyKeys(sortedKeys)]

(***************************************************************************)
(* Validation of one module against its direct imports.                    *)
(***************************************************************************)
ImportNames(m) == [i \in DOMAIN m.imports |-> defs[m.imports[i]].name]

\* Variant for C8: imports compared by definition instead of by name.
ensureImportedModulesUniquenessByIdentity(m) ==
    LET dups == {j \in DOMAIN m.imports :
                    \E i \in 1..(j - 1) : m.imports[i] = m.imports[j]}
    IN  IF dups = {} THEN NoError
        ELSE LET first == CHOOSE j \in dups : \A k \in dups : j <= k
             IN  Err("DuplicateImportError", m.name, <<>>, defs[m.imports[first]].name)

ensureImportedModulesUniqueness(m) ==
    LET names == ImportNames(m)
        dups  == {j \in DOMAIN names : \E i \in 1..(j - 1) : names[i] = names[j]}
    IN  IF dups = {} THEN NoError
        ELSE LET first == CHOOSE j \in dups : \A k \in dups : j <= k
             IN  Err("DuplicateImportError", m.name, <<>>, names[first])

\* Variant for C7: local keys compared with every provider of the imports,
\* exported or not.
ensureNoProviderNameConflictsWithProviders(m) ==
    LET moduleProviderKeys   == ProviderKeys(m)
        importedProviderKeys ==
            Flatten([i \in DOMAIN m.imports |-> ProviderKeys(defs[m.imports[i]])])
        conflicts == SelectSeq(importedProviderKeys,
                               LAMBDA k : Includes(moduleProviderKeys, k))
    IN  IF Len(conflicts) > 0
        THEN Err("ProviderNameConflictError", m.name, conflicts, "")
        ELSE NoError

ensureNoProviderNameConflicts(m) ==
    LET moduleProviderKeys   == ProviderKeys(m)
        importedProviderKeys ==
            Flatten([i \in DOMAIN m.imports |-> ExportKeys(defs[m.imports[i]])])
        conflicts == SelectSeq(importedProviderKeys,
                               LAMBDA k : Includes(moduleProviderKeys, k))
    IN  IF Len(conflicts) > 0
        THEN Err("ProviderNameConflictError", m.name, conflicts, "")
        ELSE NoError

(***************************************************************************)
(* The registration pass.  A context value ctx threads the mutable state   *)
(* of the DIContext and of the container through the recursion:            *)
(*   moduleScopes, scopes, registeredControllers, log as the variables;    *)
(*   error: the Error being thrown (NoError while running normally);       *)
(*   ret:   the value the last completed call returned;                    *)
(*   depth: the number of registerProvidersWithImports calls in progress.  *)
(* Once an error is thrown nothing else runs: the code has no try/catch.   *)
(***************************************************************************)
Ev(type, module, key, scope, keys, refs) ==
    [type |-> type, module |-> module, key |-> key, scope |-> scope,
     keys |-> keys, refs |-> refs]

Emit(ctx, e) == [ctx EXCEPT !.log = Append(@, e)]

\* `throw new Error(...)` while registering the module defs[mid]
Throw(ctx, mid, err) ==
    [Emit(ctx, Ev("throw", mid, err.kind, 0, err.keys, <<>>)) EXCEPT !.error = err]

\* The recursion into the imports of defs[mid] goes on without end: the
\* module is entered again while its own registration is in progress, with
\* nothing memoised that could stop the next round.
Diverge(ctx, mid) ==
    [Emit(ctx, Ev("unbounded", mid, "", 0, <<>>, <<>>))
        EXCEPT !.error = Err("UnboundedRecursion", defs[mid].name, <<>>, "")]

\* A registration (awilix Resolver) held by a scope:
\*   kind:   how it was registered
\*   module: the module definition that supplied it
\*   origin: the scope it is built in when resolved
\*   inst:   for a factory result, the log position of the useFactory call
Reg(kind, module, origin, inst) ==
    [kind |-> kind, module |-> module, origin |-> origin, inst |-> inst,
     opts |-> NoOptions]

\* The same registration made with the resolver options opts.
WithOptions(reg, opts) == [reg EXCEPT !.opts = opts]

\* The options field of a DIContext that was constructed without
\* providerOptions.
DefaultProviderOptions == "lifetime" :> "SCOPED"

\* this.options.providerOptions as the constructor leaves it.
GlobalProviderOptions == Merge(DefaultProviderOptions, options.providerOptions)

\* Variant for C16: the module's options override the provider's own.
classProviderOptionsModuleLast(m, p) ==
    Merge(Merge(GlobalProviderOptions, p.opts), m.providerOptions)

\* {...this.options.providerOptions, ...m.providerOptions, ...awilixOptions}
classProviderOptions(m, p) ==
    Merge(Merge(GlobalProviderOptions, m.providerOptions), p.opts)

\* {...this.options.providerOptions, ...m.providerOptions}
classConstructorOptions(m) == Merge(GlobalProviderOptions, m.providerOptions)

\* The options a non-factory provider is registered with.
registrationOptions(m, p) ==
    CASE p.kind = "resolver"         -> p.opts
      [] p.kind = "classProvider"    -> classProviderOptions(m, p)
      [] p.kind = "classConstructor" -> classConstructorOptions(m)
      [] OTHER                       -> NoOptions

\* rootContainer.createScope(): the new scope's id is ctx.ret
createScope(ctx) ==
    LET id == Len(ctx.scopes) + 1
    IN  [Emit(ctx, Ev("createScope", 0, "", id, <<>>, <<>>))
            EXCEPT !.scopes = Append(@, <<>>), !.ret = id]

\* scope.registrations[key] is set
hasRegistration(ctx, scope, key) == key \in DOMAIN ctx.scopes[scope]

\* scope.register({[key]: reg})
register(ctx, scope, key, reg) ==
    LET old == ctx.scopes[scope]
    IN  [ctx EXCEPT !.scopes[scope] =
            [k \in DOMAIN old \cup {key} |-> IF k = key THEN reg ELSE old[k]]]

\* Variant for C11: only the first declared handler is handed over.
processFirstQueryHandler(ctx, mid, scope) ==
    LET m == defs[mid]
    IN  IF ~options.onHandler \/ Len(m.queryHandlers) = 0 THEN ctx
        ELSE Emit(ctx, Ev("onHandler", mid, m.queryHandlers[1], scope, <<>>, <<>>))

processQueryHandlers(ctx, mid, scope) ==
    LET m == defs[mid]
    IN  IF ~options.onHandler \/ Len(m.queryHandlers) = 0 THEN ctx
        ELSE [ctx EXCEPT !.log = @ \o
                [i \in DOMAIN m.queryHandlers |->
                    Ev("onHandler", mid, m.queryHandlers[i], scope, <<>>, <<>>)]]

\* `if (existingModule)`: the controller is bound, to a non-empty name
ControllerAlreadyRegistered(ctx, ControllerClass) ==
    /\ ControllerClass \in DOMAIN ctx.registeredControllers
    /\ Truthy(ctx.registeredControllers[ControllerClass])

RECURSIVE ControllerLoop(_, _, _, _)
ControllerLoop(ctx, mid, scope, i) ==
    LET m == defs[mid]
    IN  IF i > Len(m.controllers) THEN ctx
        ELSE LET ControllerClass == m.controllers[i]
                 rc == ctx.registeredControllers
             IN  IF ControllerAlreadyRegistered(ctx, ControllerClass)
                 THEN Throw(ctx, mid,
                            Err("DuplicateControllerRegistrationError", m.name,
                                <<ControllerClass>>, rc[ControllerClass]))
                 ELSE ControllerLoop(
                        Emit([ctx EXCEPT !.registeredControllers =
                                 [c \in DOMAIN rc \cup {ControllerClass} |->
                                     IF c = ControllerClass THEN m.name ELSE rc[c]]],
                             Ev("onController", mid, ControllerClass, scope, <<>>, <<>>)),
                        mid, scope, i + 1)

\* Variant for C17: controllers are bound whether or not a callback is
\* configured.
processControllersUnconditionally(ctx, mid, scope) ==
    IF Len(defs[mid].controllers) = 0 THEN ctx
    ELSE ControllerLoop(ctx, mid, scope, 1)

processControllers(ctx, mid, scope) ==
    IF ~options.onController \/ Len(defs[mid].controllers) = 0 THEN ctx
    ELSE ControllerLoop(ctx, mid, scope, 1)

\* Variant for C1: no check that an inject key is registered; a key that is
\* not resolves to undefined.
factoryDepsUnchecked(ctx, scope, p) ==
    [missing |-> 0,
     deps    |-> [j \in DOMAIN p.inject |->
                     IF hasRegistration(ctx, scope, p.inject[j])
                     THEN ctx.scopes[scope][p.inject[j]]
                     ELSE Reg("undefined", 0, 0, 0)]]

\* (provider.inject || []).map(...): [missing, deps].  missing is the
\* position of the first inject key with no registration in the scope (the
\* map throws there), 0 if there is none; deps are then the resolved values,
\* each identified by the registration it was resolved from.
factoryDeps(ctx, scope, p) ==
    LET missing == {j \in DOMAIN p.inject : ~hasRegistration(ctx, scope, p.inject[j])}
    IN  IF missing # {}
        THEN [missing |-> CHOOSE j \in missing : \A k \in missing : j <= k,
              deps    |-> <<>>]
        ELSE [missing |-> 0,
              deps    |-> [j \in DOMAIN p.inject |-> ctx.scopes[scope][p.inject[j]]]]

\* One iteration of the forEach over the sorted providers.
RegisterLocally(ctx, mid, scope, key) ==
    LET m == defs[mid]
        p == ProviderOf(m, key)
    IN  IF p.kind = "factory"
        THEN LET resolved == factoryDeps(ctx, scope, p)
             IN  IF resolved.missing # 0
                 THEN Throw(ctx, mid, Err("UnresolvedInjectedKeyError", m.name,
                                          <<p.inject[resolved.missing]>>, ""))
                 ELSE LET called == Emit(ctx, Ev("factory", mid, key, scope, p.inject,
                                 [j \in DOMAIN resolved.deps |-> resolved.deps[j].inst]))
                      IN  Emit(register(called, scope, key,
                                        Reg("value", mid, scope, Len(called.log))),
                               Ev("register", mid, key, scope, <<>>, <<>>))
        ELSE Emit(register(ctx, scope, key,
                           WithOptions(Reg(p.kind, mid, scope, 0),
                                       registrationOptions(m, p))),
                  Ev("register", mid, key, scope, <<>>, <<>>))

\* Variant for C27: a local provider is also registered into the memoised
\* scopes of the module's direct imports.
RegisterInImportsToo(ctx, mid, scope, key) ==
    LET done    == RegisterLocally(ctx, mid, scope, key)
        targets == {done.moduleScopes[n] :
                       n \in Range(ImportNames(defs[mid])) \cap DOMAIN done.moduleScopes}
    IN  IF done.error # NoError THEN done
        ELSE [done EXCEPT !.scopes =
                 [s \in DOMAIN @ |->
                     IF s \in targets
                     THEN [k \in DOMAIN @[s] \cup {key} |->
                              IF k = key THEN done.scopes[scope][key] ELSE @[s][k]]
                     ELSE @[s]]]

\* scope.register(...) of one local provider: into the module's own scope
\* and no other.
RegisterProvider(ctx, mid, scope, key) == RegisterLocally(ctx, mid, scope, key)

RECURSIVE ProviderLoop(_, _, _, _)
ProviderLoop(ctx, mid, scope, order) ==
    IF order = <<>> \/ ctx.error # NoError THEN ctx
    ELSE ProviderLoop(RegisterProvider(ctx, mid, scope, Head(order)),
                      mid, scope, Tail(order))

\* Variant for C9: the providers that inject nothing are registered before
\* the sort runs.
registerClassesBeforeSorting(ctx, mid, scope) ==
    LET m      == defs[mid]
        eager  == ProviderLoop(ctx, mid, scope,
                      SelectSeq(ProviderKeys(m),
                                LAMBDA k : ~isFactoryProvider(ProviderOf(m, k))))
        sorted == sortProvidersByDependencies(m)
    IN  IF sorted.error # NoError THEN Throw(eager, mid, sorted.error)
        ELSE ProviderLoop(eager, mid, scope,
                 SelectSeq(sorted.order, LAMBDA k : isFactoryProvider(ProviderOf(m, k))))

\* Object.entries(this.sortProvidersByDependencies(m)).forEach(...)
registerSortedProviders(ctx, mid, scope) ==
    LET sorted == sortProvidersByDependencies(defs[mid])
    IN  IF sorted.error # NoError THEN Throw(ctx, mid, sorted.error)
        ELSE ProviderLoop(ctx, mid, scope, sorted.order)

\* Variant for C13: the exported provider is built in the importer's scope.
buildInImporterScope(curr, scope) ==
    WithOptions(Reg("imported", curr.module, scope, 0), curr.options)

\* asFunction(() => curr.scope.build(curr.provider), ...): the registration
\* an importer (whose own scope is `scope`) gets for one exported entry.
buildInImportedScope(curr, scope) ==
    WithOptions(Reg("imported", curr.module, curr.scope, 0), curr.options)

\* Variant for C15: the first entry written for a key is kept.
firstEntryFor(entries, key) ==
    entries[CHOOSE i \in DOMAIN entries :
                /\ entries[i].key = key
                /\ \A j \in DOMAIN entries : entries[j].key = key => i <= j]

\* acc[curr.key] = ... over the flatMap's result: the entry the accumulator
\* object ends up with for key is the last one written.
lastEntryFor(entries, key) ==
    entries[CHOOSE i \in DOMAIN entries :
                /\ entries[i].key = key
                /\ \A j \in DOMAIN entries : entries[j].key = key => j <= i]

\* scope.register(resolvedExportedFromImports): entries is the flatMap's
\* result, a sequence of [key, module, scope]; a later entry for a key
\* replaces an earlier one in the accumulator object.
RECURSIVE RegisterExports(_, _, _, _, _)
RegisterExports(ctx, mid, scope, entries, keys) ==
    IF keys = <<>> THEN ctx
    ELSE LET key  == Head(keys)
             e    == lastEntryFor(entries, key)
             reg  == buildInImportedScope(e, scope)
         IN  RegisterExports(
                 Emit(register(ctx, scope, key, reg),
                      Ev("importExport", mid, key, scope, <<>>, <<reg.module, reg.origin>>)),
                 mid, scope, entries, Tail(keys))

\* Variant for C18: a memoised scope answers only for the definition that
\* was registered under the name.
existingScopeOfSameDefinition(ctx, mid) ==
    LET memos == {e \in DOMAIN ctx.log :
                     ctx.log[e].type = "memo" /\ ctx.log[e].module = mid}
    IN  IF memos # {} /\ defs[mid].name \in DOMAIN ctx.moduleScopes
        THEN ctx.moduleScopes[defs[mid].name] ELSE 0

\* Variant for C24: a module whose registration is in progress in the
\* current call is answered with the scope it is being registered into.
existingScopeOrInProgress(ctx, mid) ==
    LET calls   == {c \in DOMAIN ctx.log : ctx.log[c].type = "call"}
        start   == CHOOSE c \in calls : \A d \in calls : d <= c
        running == {e \in start..Len(ctx.log) :
                       /\ ctx.log[e].type = "enter"
                       /\ ctx.log[e].module = mid
                       /\ \A k \in e..Len(ctx.log) :
                              ~(ctx.log[k].type = "memo" /\ ctx.log[k].module = mid)}
    IN  IF defs[mid].name \in DOMAIN ctx.moduleScopes
        THEN ctx.moduleScopes[defs[mid].name]
        ELSE IF running = {} THEN 0
        ELSE LET e == CHOOSE x \in running : TRUE
             IN  IF ctx.log[e].scope # 0 THEN ctx.log[e].scope ELSE ctx.log[e + 1].scope

\* this.moduleScopes.get(m.name): the scope id, 0 for undefined.
existingScope(ctx, mid) ==
    IF defs[mid].name \in DOMAIN ctx.moduleScopes
    THEN ctx.moduleScopes[defs[mid].name] ELSE 0

\* this.moduleScopes.set(m.name, scope)
memoize(ctx, mid, scope) ==
    Emit([ctx EXCEPT !.moduleScopes =
             [n \in DOMAIN @ \cup {defs[mid].name} |->
                 IF n = defs[mid].name THEN scope ELSE @[n]]],
         Ev("memo", mid, "", scope, <<>>, <<>>))

\* Variant for C21: the scope is memoised only once the hooks have run
\* without throwing.
dispatchHooksThenMemoize(ctx, mid, scope) ==
    LET hooks == processControllers(processQueryHandlers(ctx, mid, scope), mid, scope)
    IN  IF hooks.error # NoError THEN hooks ELSE memoize(hooks, mid, scope)

\* The tail of registerProvidersWithImports: the scope is memoised, then the
\* handlers and the controllers are handed over.
memoizeAndDispatchHooks(ctx, mid, scope) ==
    processControllers(processQueryHandlers(memoize(ctx, mid, scope), mid, scope),
                       mid, scope)

RECURSIVE registerProvidersWithImports(_, _, _)
RECURSIVE ImportLoop(_, _, _, _)

\* The flatMap over m.imports from import i on: [ctx, entries].
ImportLoop(ctx, mid, i, entries) ==
    LET m == defs[mid]
    IN  IF i > Len(m.imports) \/ ctx.error # NoError
        THEN [ctx |-> ctx, entries |-> entries]
        ELSE LET imported == m.imports[i]
                 done     == registerProvidersWithImports(ctx, imported, 0)
                 ks       == ExportKeys(defs[imported])
             IN  ImportLoop(done, mid, i + 1,
                     entries \o [j \in DOMAIN ks |->
                         [key |-> ks[j], module |-> imported, scope |-> done.ret,
                          options |-> Merge(GlobalProviderOptions,
                                            defs[imported].providerOptions)]])

registerProvidersWithImports(ctx, mid, targetScope) ==
    LET m == defs[mid]
    IN  IF existingScope(ctx, mid) # 0
        THEN [Emit(ctx, Ev("cached", mid, "", existingScope(ctx, mid), <<>>, <<>>))
                 EXCEPT !.ret = existingScope(ctx, mid)]
        ELSE IF ctx.depth >= MaxDepth THEN Diverge(ctx, mid)
        ELSE
        LET entered == Emit([ctx EXCEPT !.depth = @ + 1],
                            Ev("enter", mid, "", targetScope, <<>>, <<>>))
            unique  == ensureImportedModulesUniqueness(m)
            clash   == ensureNoProviderNameConflicts(m)
        IN  IF unique # NoError THEN Throw(entered, mid, unique)
            ELSE IF clash # NoError THEN Throw(entered, mid, clash)
            ELSE
            LET scoped  == IF targetScope # 0 THEN entered ELSE createScope(entered)
                scope   == IF targetScope # 0 THEN targetScope ELSE scoped.ret
                imports == ImportLoop(scoped, mid, 1, <<>>)
            IN  IF imports.ctx.error # NoError THEN imports.ctx
                ELSE
                LET merged == RegisterExports(imports.ctx, mid, scope, imports.entries,
                                 OwnPropertyKeys([j \in DOMAIN imports.entries |->
                                                     imports.entries[j].key]))
                    local  == registerSortedProviders(merged, mid, scope)
                IN  IF local.error # NoError THEN local
                    ELSE [memoizeAndDispatchHooks(local, mid, scope)
                             EXCEPT !.ret = scope, !.depth = @ - 1]

\* modules.map(...) from position i on: [ctx, pairs].
RECURSIVE ModulesLoop(_, _, _, _)
ModulesLoop(ctx, mods, i, pairs) ==
    IF i > Len(mods) \/ ctx.error # NoError THEN [ctx |-> ctx, pairs |-> pairs]
    ELSE LET scoped == createScope(ctx)
             scope  == scoped.ret
             done   == registerProvidersWithImports(scoped, mods[i], scope)
         IN  ModulesLoop(done, mods, i + 1,
                         Append(pairs, [scope |-> scope, name |-> defs[mods[i]].name]))

\* Variant for C14: a module listed twice is registered, and answered, once.
registerDistinctModules(ctx, mods) ==
    ModulesLoop(Emit(ctx, Ev("call", 0, "", 0, <<>>, mods)),
                FirstOccurrences(mods), 1, <<>>)

registerModules(ctx, mods) ==
    ModulesLoop(Emit(ctx, Ev("call", 0, "", 0, <<>>, mods)), mods, 1, <<>>)

(***************************************************************************)
(* The inputs: module definitions and DIContext options.                   *)
(***************************************************************************)
Module(name, imports, providers, exports, queryHandlers, controllers) ==
    [name |-> name, imports |-> imports, providers |-> providers,
     exports |-> exports, queryHandlers |-> queryHandlers,
     controllers |-> controllers, providerOptions |-> NoOptions]

\* A module that sets providerOptions.
ModuleWithOptions(m, providerOptions) ==
    [m EXCEPT !.providerOptions = providerOptions]

Class(key) == Provider(key, "classConstructor", <<>>)
ClassProvider(key, opts) == [Provider(key, "classProvider", <<>>) EXCEPT !.opts = opts]
Resolver(key, opts) == [Provider(key, "resolver", <<>>) EXCEPT !.opts = opts]
Factory(key, inject) == Provider(key, "factory", inject)

\* All sequences without repetition over the set S.
RECURSIVE DistinctSeqs(_)
DistinctSeqs(S) ==
    {<<>>} \cup UNION {{<<x>> \o rest : rest \in DistinctSeqs(S \ {x})} : x \in S}

\* Inject lists of at most n keys.
InjectLists(n) == UNION {[1..k -> Keys] : k \in 0..n}

\* Provider maps over the key sequence keys with at most budget inject
\* references in all: each provider a class or a factory.
RECURSIVE ProviderMapsOver(_, _)
ProviderMapsOver(keys, budget) ==
    IF keys = <<>> THEN {<<>>}
    ELSE UNION {{<<p>> \o rest :
                    rest \in ProviderMapsOver(Tail(keys), budget - Len(p.inject))} :
                p \in {Class(Head(keys))}
                      \cup {Factory(Head(keys), inj) : inj \in InjectLists(budget)}}

\* Every provider map a caller can write over Keys (as an object literal,
\* whose own keys are already in property order).
ProviderMaps ==
    UNION {ProviderMapsOver(ks, MaxEdges) :
           ks \in {s \in DistinctSeqs(Keys) : OwnPropertyKeys(s) = s}}

Callbacks(onHandler, onController) ==
    [onHandler |-> onHandler, onController |-> onController,
     providerOptions |-> NoOptions]

\* One module with any provider map, no imports.
ProviderInputs ==
    {[defs    |-> <<Module("A", <<>>, pm, <<>>, <<>>, <<>>)>>,
      options |-> Callbacks(TRUE, TRUE)] : pm \in ProviderMaps}

\* Three modules A (1), B (2) and a leaf (3) that may also be named B;
\* imports go from lower to higher ids.
LeafShapes ==
    {[providers |-> <<Class("a"), Factory("b", <<"a">>)>>, exports |-> <<"b">>],
     [providers |-> <<Class("a")>>,                        exports |-> <<"a">>],
     [providers |-> <<Class("1"), Factory("a", <<"1", "1">>), Factory("b", <<"b">>)>>,
      exports   |-> <<"a">>]}

MiddleShapes ==
    {[providers |-> <<Class("b")>>,                exports |-> <<"b">>],
     [providers |-> <<Factory("b", <<"a">>)>>,     exports |-> <<"b">>],
     [providers |-> <<>>,                          exports |-> <<>>]}

TopShapes ==
    {[providers |-> <<Class("a")>>,                              exports |-> <<>>],
     [providers |-> <<Class("1"), Factory("b", <<"1">>)>>,       exports |-> <<>>],
     [providers |-> <<>>,                                        exports |-> <<>>]}

GraphInputs ==
    {[defs |-> <<Module("A", i1, top.providers, top.exports, <<>>, <<>>),
                 Module("B", i2, mid.providers, mid.exports, <<>>, <<>>),
                 Module(n3, <<>>, leaf.providers, leaf.exports, <<>>, <<>>)>>,
      options |-> Callbacks(TRUE, TRUE)] :
        i1 \in {<<>>, <<2>>, <<3>>, <<2, 3>>, <<3, 2>>, <<2, 2>>},
        i2 \in {<<>>, <<3>>},
        n3 \in {"C", "B"},
        top \in TopShapes, mid \in MiddleShapes, leaf \in LeafShapes}

\* Modules that declare controllers and handlers; the first may have the
\* empty name, the last may have a dangling inject key or a provider that
\* injects itself next to one that injects a key twice.
HookInputs ==
    {[defs |-> <<Module(n1, i1, <<Class("a")>>, <<>>, h1, c1),
                 Module("B", <<>>, <<Factory("a", <<>>)>>, <<>>, <<"H1">>, c2),
                 Module("C", <<>>, p3, <<>>, <<>>, <<"C1">>)>>,
      options |-> Callbacks(onH, onC)] :
        n1 \in {"A", ""},
        i1 \in {<<2>>},
        h1 \in {<<>>, <<"H1", "H2">>},
        c1 \in {<<>>, <<"C1", "C2">>, <<"C1", "C1">>},
        c2 \in {<<"C1">>, <<"C2">>},
        p3 \in {<<Class("a")>>, <<Factory("a", <<"b">>)>>,
                <<Class("1"), Factory("a", <<"1", "1">>), Factory("b", <<"b">>)>>},
        onH \in BOOLEAN, onC \in BOOLEAN}

\* The options objects tried: each of two options left out or set.
OptionSets ==
    {Merge(l, i) : l \in {NoOptions, "lifetime" :> "SINGLETON", "lifetime" :> "TRANSIENT"},
                   i \in {NoOptions, "injectionMode" :> "CLASSIC"}}

\* One module with a resolver, a class provider and a bare class, under
\* every combination of global, module and provider options.
OptionInputs ==
    {[defs    |-> <<ModuleWithOptions(
                        Module("A", <<>>,
                               <<Resolver("1", "lifetime" :> "SINGLETON"),
                                 ClassProvider("a", po), Class("b")>>,
                               <<>>, <<>>, <<>>),
                        mo)>>,
      options |-> [Callbacks(TRUE, TRUE) EXCEPT !.providerOptions = go]] :
        go \in OptionSets, mo \in OptionSets, po \in OptionSets}

\* Three modules whose imports may form a cycle (a module importing itself,
\* two modules importing each other, a cycle below the first module), with
\* or without something that throws on the way: an import listed twice, a
\* local key that an import exports, a dangling inject key.
CycleInputs ==
    {[defs |-> <<Module("A", i1, <<Class("a")>>, e1, <<>>, <<>>),
                 Module("B", i2, p2, <<>>, <<>>, <<>>),
                 Module("C", i3, p3, <<>>, <<>>, <<>>)>>,
      options |-> Callbacks(TRUE, TRUE)] :
        i1 \in {<<2>>, <<3, 2>>, <<1>>},
        e1 \in {<<>>, <<"a">>},
        i2 \in {<<1>>, <<3>>, <<1, 1>>},
        p2 \in {<<>>, <<Class("a")>>},
        i3 \in {<<>>, <<2>>},
        p3 \in {<<Class("b")>>, <<Factory("b", <<"a">>)>>}}

Inputs ==
    ProviderInputs \cup GraphInputs \cup HookInputs \cup OptionInputs \cup CycleInputs

(***************************************************************************)
(* The state machine.                                                      *)
(***************************************************************************)
Init ==
    /\ \E in \in Inputs : defs = in.defs /\ options = in.options
    /\ moduleScopes = <<>>
    /\ scopes = <<>>
    /\ registeredControllers = <<>>
    /\ log = <<>>
    /\ outcome = [status |-> "none", value |-> <<>>, error |-> NoError]
    /\ regsLeft = MaxRegs

\* The DIContext as the context value a call starts from.
Context ==
    [moduleScopes |-> moduleScopes, scopes |-> scopes,
     registeredControllers |-> registeredControllers, log |-> log,
     error |-> NoError, ret |-> 0, depth |-> 0]

\* diContext.registerModules(mods): returns the {scope, name} pairs, throws,
\* or recurses without end ("unbounded"); nothing follows a call that never
\* comes back.
RegisterModules(mods) ==
    /\ Len(mods) <= regsLeft
    /\ outcome.status # "unbounded"
    /\ \E done \in {registerModules(Context, mods)} :
           /\ moduleScopes' = done.ctx.moduleScopes
           /\ scopes' = done.ctx.scopes
           /\ registeredControllers' = done.ctx.registeredControllers
           /\ log' = done.ctx.log
           /\ outcome' = IF done.ctx.error = NoError
                         THEN [status |-> "returned", value |-> done.pairs,
                               error |-> NoError]
                         ELSE IF done.ctx.error.kind = "UnboundedRecursion"
                         THEN [status |-> "unbounded", value |-> <<>>,
                               error |-> NoError]
                         ELSE [status |-> "threw", value |-> <<>>,
                               error |-> done.ctx.error]
    /\ regsLeft' = regsLeft - Len(mods)
    /\ UNCHANGED <<defs, options>>

Next ==
    \E n \in 1..MaxRegs : \E mods \in [1..n -> DOMAIN defs] : RegisterModules(mods)

Spec == Init /\ [][Next]_vars

(***************************************************************************)
(* Vocabulary of the properties.  Every state is the state after a call of *)
(* registerModules (or the initial one), so a property of "a call" is      *)
(* stated of the last call: the log from its "call" event on, and outcome. *)
(***************************************************************************)
LastCall ==
    IF log = <<>> THEN 0
    ELSE CHOOSE i \in DOMAIN log :
            /\ log[i].type = "call"
            /\ \A j \in DOMAIN log : log[j].type = "call" => j <= i

InCall == IF log = <<>> THEN {} ELSE LastCall..Len(log)

\* The registrations the last call started: one "enter" per module that was
\* not answered from moduleScopes.
Attempts == {i \in InCall : log[i].type = "enter"}

\* The position at which the registration started at i memoised its scope,
\* 0 if it did not get that far.
MemoOf(i) ==
    LET done == {j \in InCall : /\ j > i
                                /\ log[j].type = "memo"
                                /\ log[j].module = log[i].module}
    IN  IF done = {} THEN 0 ELSE CHOOSE j \in done : \A k \in done : j <= k

\* The module whose registration threw, when the last call threw (0 when it
\* did not throw).
Thrower == IF outcome.status = "threw" THEN log[Len(log)].module ELSE 0

LocalKeys(m) == {m.providers[i].key : i \in DOMAIN m.providers}

InjectOf(m, key) == Range(ProviderOf(m, key).inject)

\* Inject keys of m that name no local provider of m.
Dangling(m) == UNION {InjectOf(m, k) : k \in LocalKeys(m)} \ LocalKeys(m)

RECURSIVE Closure(_, _, _)
Closure(m, S, n) ==
    IF n = 0 THEN S
    ELSE Closure(m, S \cup UNION {InjectOf(m, k) \cap LocalKeys(m) : k \in S}, n - 1)

\* The local providers key depends on, directly or not.
DependenciesOf(m, key) ==
    Closure(m, InjectOf(m, key) \cap LocalKeys(m), Len(m.providers))

OnCycle(m, key) == key \in DependenciesOf(m, key)

HasCycle(m) == \E k \in LocalKeys(m) : OnCycle(m, k)

\* On a cycle, or depending on a key that is.
Unorderable(m, key) == \E c \in DependenciesOf(m, key) \cup {key} : OnCycle(m, c)

DistinctImportNames(m) ==
    \A i, j \in DOMAIN m.imports :
        i # j => defs[m.imports[i]].name # defs[m.imports[j]].name

\* Local provider keys of m that a direct import of m exports.
CollidingKeys(m) ==
    LocalKeys(m) \cap UNION {Range(defs[m.imports[i]].exports) : i \in DOMAIN m.imports}

ValidationErrors ==
    {"DuplicateImportError", "ProviderNameConflictError",
     "MissingDependencyReferenceError", "CircularDependencyError"}

C2_AcyclicNeverCircular ==
    (outcome.status = "threw" /\ outcome.error.kind = "CircularDependencyError")
        => HasCycle(defs[Thrower])

(***************************************************************************)
(* C3.  The scope of every module registered successfully holds exactly    *)
(* the module's local provider keys and the export keys of its direct      *)
(* imports.                                                                *)
(***************************************************************************)
C3_ScopeHoldsLocalAndImportedExports ==
    \A j \in InCall :
        log[j].type = "memo" =>
            LET m == defs[log[j].module]
            IN  DOMAIN scopes[log[j].scope] =
                    LocalKeys(m) \cup
                    UNION {Range(defs[m.imports[i]].exports) : i \in DOMAIN m.imports}

(***************************************************************************)
(* C4.  The registration of a module whose local dependency graph has a    *)
(* cycle (and which passes the earlier checks) never succeeds; it throws   *)
(* CircularDependencyError naming the module and listing exactly the keys  *)
(* that are on a cycle or depend on one.                                   *)
(***************************************************************************)
C4_CycleThrowsListingUnorderable ==
    \A i \in Attempts :
        LET m == defs[log[i].module]
        IN  (HasCycle(m) /\ Dangling(m) = {}) =>
                /\ MemoOf(i) = 0
                /\ outcome.status = "threw"
                /\ (Thrower = log[i].module /\ DistinctImportNames(m)
                        /\ CollidingKeys(m) = {}) =>
                       /\ outcome.error.kind = "CircularDependencyError"
                       /\ outcome.error.module = m.name
                       /\ outcome.error.keys # <<>>
                       /\ Range(outcome.error.keys) =
                              {k \in LocalKeys(m) : Unorderable(m, k)}

DistinctModuleNames ==
    \A i, j \in DOMAIN defs : i # j => defs[i].name # defs[j].name

\* Number of import paths (of any length, 0 included) from module `from` to
\* module `to`; PathsVia sums them over a list of modules.  fuel bounds the
\* depth, which never exceeds the number of definitions.
RECURSIVE ImportPaths(_, _, _)
RECURSIVE PathsVia(_, _, _)
ImportPaths(from, to, fuel) ==
    (IF from = to THEN 1 ELSE 0) +
    (IF fuel = 0 THEN 0 ELSE PathsVia(defs[from].imports, to, fuel - 1))

PathsVia(mods, to, fuel) ==
    IF mods = <<>> THEN 0
    ELSE ImportPaths(Head(mods), to, fuel) + PathsVia(Tail(mods), to, fuel)

\* Import paths (of one import or more) that reach module x from the modules
\* given to the last call, a module given twice counted once.
PathsFromCall(x) ==
    LET given == FirstOccurrences(log[LastCall].refs)
    IN  PathsVia(Flatten([i \in DOMAIN given |-> defs[given[i]].imports]),
                 x, Len(defs))

EventsOf(type, mid, key) ==
    {j \in DOMAIN log : log[j].type = type /\ log[j].module = mid /\ log[j].key = key}

(***************************************************************************)
(* C5.  After a first registerModules call returned, over module           *)
(* definitions with pairwise distinct names: a module reached along two or *)
(* more import paths has each local provider registered exactly once and   *)
(* each factory invoked exactly once, and every importer's registrations   *)
(* of its exports resolve in the one scope memoised for it.                *)
(***************************************************************************)
C5_SharedModuleRegisteredOnce ==
    (outcome.status = "returned" /\ LastCall = 1 /\ DistinctModuleNames) =>
        \A x \in DOMAIN defs :
            PathsFromCall(x) >= 2 =>
                /\ defs[x].name \in DOMAIN moduleScopes
                /\ \A k \in LocalKeys(defs[x]) :
                       /\ Cardinality(EventsOf("register", x, k)) = 1
                       /\ isFactoryProvider(ProviderOf(defs[x], k)) =>
                              Cardinality(EventsOf("factory", x, k)) = 1
                /\ \A j \in InCall :
                       (log[j].type = "importExport" /\ log[j].refs[1] = x) =>
                           log[j].refs[2] = moduleScopes[defs[x].name]

(***************************************************************************)
(* C6.  A registration of a module one of whose factories injects a key    *)
(* that is no local provider key never succeeds (the call does not         *)
(* return), never registers a local provider of the module and never       *)
(* invokes one of its factories; when it is the module that throws, past   *)
(* the import checks (distinct import names, no colliding key) and with    *)
(* its imports registered, the error is MissingDependencyReferenceError    *)
(* naming the module and a dangling key, also when a direct import exports *)
(* that key.                                                               *)
(***************************************************************************)
C6_DanglingInjectThrowsBeforeRegistering ==
    \A i \in Attempts :
        LET mid == log[i].module
            m   == defs[mid]
        IN  Dangling(m) # {} =>
                /\ MemoOf(i) = 0
                /\ outcome.status # "returned"
                /\ \A k \in InCall :
                       log[k].module = mid => log[k].type \notin {"register", "factory"}
                /\ (Thrower = mid /\ DistinctImportNames(m) /\ CollidingKeys(m) = {}) =>
                       /\ outcome.error.kind = "MissingDependencyReferenceError"
                       /\ outcome.error.module = m.name
                       /\ Len(outcome.error.keys) = 1
                       /\ outcome.error.keys[1] \in Dangling(m)

\* The dangling key had just been registered in the module's scope as an
\* export of a direct import, and the error names it all the same.
C6_Witness ==
    /\ outcome.status = "threw"
    /\ outcome.error.kind = "MissingDependencyReferenceError"
    /\ \E j \in InCall :
           /\ log[j].type = "importExport"
           /\ log[j].module = Thrower
           /\ log[j].key = outcome.error.keys[1]

(***************************************************************************)
(* C7.  A registration of a module with distinct import names and a local  *)
(* provider key that a direct import exports throws                        *)
(* ProviderNameConflictError at once, naming the module and exactly the    *)
(* colliding keys; a module none of whose local keys is exported by a      *)
(* direct import never raises that error.                                  *)
(***************************************************************************)
C7_CollidingKeyThrows ==
    /\ \A i \in Attempts :
           LET m == defs[log[i].module]
           IN  (DistinctImportNames(m) /\ CollidingKeys(m) # {}) =>
                   /\ Len(log) = i + 1
                   /\ log[i + 1].type = "throw"
                   /\ outcome.status = "threw"
                   /\ outcome.error.kind = "ProviderNameConflictError"
                   /\ outcome.error.module = m.name
                   /\ Range(outcome.error.keys) = CollidingKeys(m)
    /\ (outcome.status = "threw" /\ outcome.error.kind = "ProviderNameConflictError")
           => CollidingKeys(defs[Thrower]) # {}

\* The error was raised by a module whose import has imports of its own.
C7_Witness ==
    /\ outcome.status = "threw"
    /\ outcome.error.kind = "ProviderNameConflictError"
    /\ \E i \in DOMAIN defs[Thrower].imports :
           defs[defs[Thrower].imports[i]].imports # <<>>

(***************************************************************************)
(* C8.  A registration of a module two of whose imports have the same name *)
(* throws DuplicateImportError at once, naming the module and the first    *)
(* repeated import name, also when a local key collides with an export of  *)
(* an import.                                                              *)
(***************************************************************************)
C8_RepeatedImportNameThrowsFirst ==
    \A i \in Attempts :
        LET m     == defs[log[i].module]
            names == [x \in DOMAIN m.imports |-> defs[m.imports[x]].name]
        IN  ~DistinctImportNames(m) =>
                /\ Len(log) = i + 1
                /\ log[i + 1].type = "throw"
                /\ outcome.status = "threw"
                /\ outcome.error.kind = "DuplicateImportError"
                /\ outcome.error.module = m.name
                /\ \E y \in DOMAIN names :
                       /\ outcome.error.other = names[y]
                       /\ \E x \in 1..(y - 1) : names[x] = names[y]
                       /\ \A z \in 1..(y - 1) : \A x \in 1..(z - 1) : names[x] # names[z]

\* Both checks would fail for the module; DuplicateImportError is the one raised.
C8_Witness ==
    /\ outcome.status = "threw"
    /\ outcome.error.kind = "DuplicateImportError"
    /\ CollidingKeys(defs[Thrower]) # {}

ConstructionEvents == {"factory", "register", "importExport", "onHandler", "onController"}

(***************************************************************************)
(* C9 (as stated).  When a call throws one of the four validation errors,  *)
(* no factory was invoked, no provider registered into any scope and no    *)
(* hook called during that call.                                           *)
(***************************************************************************)
C9_NothingConstructedBeforeError ==
    (outcome.status = "threw" /\ outcome.error.kind \in ValidationErrors) =>
        \A j \in InCall : log[j].type \notin ConstructionEvents

(***************************************************************************)
(* C9 (amended).  When a call throws one of the four validation errors     *)
(* while registering module M, then during that call no factory of M was   *)
(* invoked, no local provider of M registered and no hook called for M.    *)
(***************************************************************************)
C9_FailingModuleConstructsNothing ==
    (outcome.status = "threw" /\ outcome.error.kind \in ValidationErrors) =>
        \A j \in InCall :
            log[j].module = Thrower =>
                log[j].type \notin {"factory", "register", "onHandler", "onController"}

\* A validation error raised after another module of the same call had a
\* factory invoked and a hook called.
C9_Witness ==
    /\ outcome.status = "threw"
    /\ outcome.error.kind \in ValidationErrors
    /\ \E j, k \in InCall :
           /\ log[j].type = "factory" /\ log[j].module # Thrower
           /\ log[k].type \in {"onHandler", "onController"} /\ log[k].module # Thrower

(***************************************************************************)
(* C10.  With onController configured, a controller constructor is handed  *)
(* to onController at most once over the life of the context; and the      *)
(* registration of a module that declares a controller already handed over *)
(* for a module of another name throws                                     *)
(* DuplicateControllerRegistrationError naming both modules.               *)
(***************************************************************************)
C10_ControllerBoundOnce ==
    /\ \A i, j \in DOMAIN log :
           (log[i].type = "onController" /\ log[j].type = "onController"
               /\ log[i].key = log[j].key) => i = j
    /\ \A i \in Attempts :
           LET mid   == log[i].module
               m     == defs[mid]
               bound == {e \in 1..(i - 1) :
                            /\ log[e].type = "onController"
                            /\ log[e].key \in Range(m.controllers)
                            /\ defs[log[e].module].name # m.name}
           IN  (options.onController /\ MemoOf(i) # 0 /\ bound # {}) =>
                   /\ outcome.status = "threw"
                   /\ outcome.error.kind = "DuplicateControllerRegistrationError"
                   /\ Thrower = mid
                   /\ outcome.error.module = m.name
                   /\ \E e \in 1..(i - 1) :
                          /\ log[e].type = "onController"
                          /\ log[e].key = outcome.error.keys[1]
                          /\ defs[log[e].module].name = outcome.error.other

\* The hook calls of one kind made for module mid so far, in order: each the
\* pair of the constructor and the scope handed to the callback.
HookCalls(type, mid) ==
    LET calls == SelectSeq(log, LAMBDA e : e.type = type /\ e.module = mid)
    IN  [i \in DOMAIN calls |-> <<calls[i].key, calls[i].scope>>]

\* No call of registerModules has thrown so far.
AllCallsSucceeded == \A j \in DOMAIN log : log[j].type # "throw"

LastRegistration(scope, key, f) ==
    LET regs == {j \in 1..(f - 1) :
                    /\ log[j].type \in {"register", "importExport"}
                    /\ log[j].scope = scope
                    /\ log[j].key = key}
    IN  IF regs = {} THEN 0 ELSE CHOOSE j \in regs : \A k \in regs : k <= j

\* The identity of the value a resolve of the registration made at position
\* r yields: for a factory's result the position of the useFactory call (the
\* step before the registration), 0 for anything built on demand.
InstanceAt(r) ==
    IF r > 1 /\ log[r].type = "register" /\ log[r - 1].type = "factory"
        /\ log[r - 1].key = log[r].key /\ log[r - 1].scope = log[r].scope
    THEN r - 1 ELSE 0

(***************************************************************************)
(* C12.  For every module registered successfully, each of its factory     *)
(* providers was invoked exactly once, during that registration, with one  *)
(* argument per inject key in the order of the inject list, the i-th       *)
(* argument being what the module's scope held under the i-th key at that  *)
(* moment; and the scope holds under the provider's key the plain value    *)
(* that invocation returned.                                               *)
(***************************************************************************)
C12_FactoryInvokedOnceWithInjectedValues ==
    \A j \in DOMAIN log :
        log[j].type = "memo" =>
            LET mid == log[j].module
                m   == defs[mid]
                sc  == log[j].scope
            IN  \A k \in LocalKeys(m) :
                    isFactoryProvider(ProviderOf(m, k)) =>
                        LET p     == ProviderOf(m, k)
                            calls == EventsOf("factory", mid, k)
                        IN  /\ Cardinality(calls) = 1
                            /\ \A f \in calls :
                                   /\ f < j
                                   /\ \E i \in 1..(f - 1) :
                                          /\ log[i].type = "enter"
                                          /\ log[i].module = mid
                                          /\ \A t \in i..j : log[t].type # "call"
                                   /\ log[f].scope = sc
                                   /\ log[f].keys = p.inject
                                   /\ Len(log[f].refs) = Len(p.inject)
                                   /\ \A a \in DOMAIN p.inject :
                                          /\ LastRegistration(sc, p.inject[a], f) # 0
                                          /\ log[f].refs[a] =
                                                 InstanceAt(LastRegistration(sc, p.inject[a], f))
                                   /\ k \in DOMAIN scopes[sc]
                                   /\ scopes[sc][k] = Reg("value", mid, sc, f)

\* The module whose registration memoised the scope sc (0 if none did).
OwnerOf(sc) ==
    LET memos == {e \in DOMAIN log : log[e].type = "memo" /\ log[e].scope = sc}
    IN  IF memos = {} THEN 0 ELSE log[CHOOSE e \in memos : TRUE].module

GivenModules == log[LastCall].refs

(***************************************************************************)
(* C14.  A registerModules call that returns yields one {scope, name} pair *)
(* per entry of the list it was given, in the order of the list, each with *)
(* the name of the module at that position and a scope of its own.         *)
(***************************************************************************)
C14_OnePairPerInputModule ==
    outcome.status = "returned" =>
        /\ Len(outcome.value) = Len(GivenModules)
        /\ \A i \in DOMAIN outcome.value :
               /\ outcome.value[i].name = defs[GivenModules[i]].name
               /\ outcome.value[i].scope \in DOMAIN scopes
        /\ \A i, j \in DOMAIN outcome.value :
               i # j => outcome.value[i].scope # outcome.value[j].scope

\* A call returned two pairs for a list whose second module is also an
\* import of the first, so that its turn found it registered already.
C14_Witness ==
    /\ outcome.status = "returned"
    /\ Len(outcome.value) = 2
    /\ GivenModules[2] \in Range(defs[GivenModules[1]].imports)
    /\ defs[GivenModules[2]].providers # <<>>

\* The positions in m.imports of the imports that export key.
ExportersOf(m, key) ==
    {x \in DOMAIN m.imports : key \in Range(defs[m.imports[x]].exports)}

\* Keys that two or more imports of m export and m does not provide itself.
SharedExportKeys(m) ==
    {k \in Keys \ LocalKeys(m) : Cardinality(ExportersOf(m, k)) >= 2}

(***************************************************************************)
(* C15.  For a module M with distinct import names and no local key that   *)
(* an import exports, two imports of which export the same key: M's        *)
(* registration raises neither DuplicateImportError nor                    *)
(* ProviderNameConflictError, and when it succeeds the entry of M's scope  *)
(* under that key is the one of the import that comes last in M's imports. *)
(***************************************************************************)
C15_LaterImportWins ==
    \A i \in Attempts :
        LET mid == log[i].module
            m   == defs[mid]
        IN  (DistinctImportNames(m) /\ CollidingKeys(m) = {}) =>
                \A k \in SharedExportKeys(m) :
                    LET later == CHOOSE x \in ExportersOf(m, k) :
                                     \A y \in ExportersOf(m, k) : y <= x
                    IN  /\ (outcome.status = "threw" /\ Thrower = mid) =>
                               outcome.error.kind \notin
                                   {"DuplicateImportError", "ProviderNameConflictError"}
                        /\ MemoOf(i) # 0 =>
                               LET sc == log[MemoOf(i)].scope
                               IN  /\ k \in DOMAIN scopes[sc]
                                   /\ scopes[sc][k].kind = "imported"
                                   /\ scopes[sc][k].module = m.imports[later]
                                   /\ scopes[sc][k].origin =
                                          moduleScopes[defs[m.imports[later]].name]

\* A module was registered whose two imports export the same key, and the
\* key in its scope is built in the scope of the second of them.
C15_Witness ==
    \E i \in Attempts :
        LET m == defs[log[i].module]
        IN  /\ MemoOf(i) # 0
            /\ Len(m.imports) = 2
            /\ \E k \in SharedExportKeys(m) :
                   /\ k \in DOMAIN scopes[log[MemoOf(i)].scope]
                   /\ scopes[log[MemoOf(i)].scope][k].origin =
                          moduleScopes[defs[m.imports[2]].name]
                   /\ moduleScopes[defs[m.imports[1]].name] #
                          moduleScopes[defs[m.imports[2]].name]

OptionNames == {"lifetime", "injectionMode"}

\* What a key-wise merge leaves for option o: sources lists the options
\* objects from the one that overrides all others to the one overridden by
\* all; the result is <<v>> for the value v of the first that sets o, <<>>
\* when none does.
Prevailing(sources, o) ==
    LET setting == {i \in DOMAIN sources : o \in DOMAIN sources[i]}
    IN  IF setting = {} THEN <<>>
        ELSE <<sources[CHOOSE i \in setting : \A j \in setting : i <= j][o]>>

\* The options object opts is the key-wise merge of sources.
IsMergeOf(opts, sources) ==
    /\ DOMAIN opts \subseteq OptionNames
    /\ \A o \in OptionNames :
           Prevailing(sources, o) = IF o \in DOMAIN opts THEN <<opts[o]>> ELSE <<>>

BuiltInOptions == [lifetime |-> "SCOPED"]

(***************************************************************************)
(* C16.  In the scope of every module registered successfully: a class     *)
(* provider is registered with the key-wise merge of its own options over  *)
(* the module's providerOptions over the providerOptions given to the      *)
(* DIContext over the built-in lifetime = SCOPED; a bare class constructor *)
(* with the same merge without options of its own; a resolver with the     *)
(* configuration it came with.                                             *)
(***************************************************************************)
C16_OptionsMergedKeyWise ==
    \A j \in DOMAIN log :
        log[j].type = "memo" =>
            LET m  == defs[log[j].module]
                sc == log[j].scope
            IN  \A k \in LocalKeys(m) \cap DOMAIN scopes[sc] :
                    LET p   == ProviderOf(m, k)
                        reg == scopes[sc][k]
                    IN  /\ p.kind = "classProvider" =>
                               IsMergeOf(reg.opts, <<p.opts, m.providerOptions,
                                                     options.providerOptions, BuiltInOptions>>)
                        /\ p.kind = "classConstructor" =>
                               IsMergeOf(reg.opts, <<m.providerOptions,
                                                     options.providerOptions, BuiltInOptions>>)
                        /\ p.kind = "resolver" => reg.opts = p.opts

\* A class provider was registered whose own lifetime differs from the
\* module's, which differs from the built-in one, while an option only the
\* DIContext sets comes through.
C16_Witness ==
    \E j \in DOMAIN log :
        /\ log[j].type = "memo"
        /\ \E k \in LocalKeys(defs[log[j].module]) \cap DOMAIN scopes[log[j].scope] :
               LET m == defs[log[j].module]
                   p == ProviderOf(m, k)
               IN  /\ p.kind = "classProvider"
                   /\ "lifetime" \in DOMAIN p.opts
                   /\ "lifetime" \in DOMAIN m.providerOptions
                   /\ p.opts["lifetime"] # m.providerOptions["lifetime"]
                   /\ "injectionMode" \in DOMAIN options.providerOptions
                   /\ "injectionMode" \notin DOMAIN p.opts \cup DOMAIN m.providerOptions
                   /\ scopes[log[j].scope][k].opts =
                          [lifetime |-> p.opts["lifetime"], injectionMode |-> "CLASSIC"]

(***************************************************************************)
(* C17.  Without an onController callback no controller is ever handed     *)
(* over or bound and no DuplicateControllerRegistrationError is raised,    *)
(* whatever controllers the registered modules declare; without an         *)
(* onHandler callback no handler is ever handed over.                      *)
(***************************************************************************)
C17_NoCallbackNoDispatch ==
    /\ ~options.onController =>
           /\ registeredControllers = <<>>
           /\ \A j \in DOMAIN log : log[j].type # "onController"
           /\ \A j \in DOMAIN log :
                  log[j].type = "throw" =>
                      log[j].key # "DuplicateControllerRegistrationError"
    /\ ~options.onHandler =>
           \A j \in DOMAIN log : log[j].type # "onHandler"

\* With neither callback configured a call returned after registering two
\* modules of different names that declare the same controller, one of them
\* declaring handlers too.
C17_Witness ==
    /\ ~options.onController
    /\ ~options.onHandler
    /\ outcome.status = "returned"
    /\ \E i, j \in InCall :
           /\ log[i].type = "memo" /\ log[j].type = "memo"
           /\ defs[log[i].module].name # defs[log[j].module].name
           /\ Range(defs[log[i].module].controllers)
                  \cap Range(defs[log[j].module].controllers) # {}
           /\ defs[log[i].module].queryHandlers # <<>>

\* The positions before j at which a scope was memoised under name.
MemosBefore(name, j) ==
    {e \in 1..(j - 1) : log[e].type = "memo" /\ defs[log[e].module].name = name}

(***************************************************************************)
(* C18.  A registration is started only for a module whose name is not     *)
(* memoised yet.  Every other encounter of a module (as an import or at    *)
(* top level, in the same or a later call, of the same definition or of    *)
(* another one with that name) is answered with the scope memoised last    *)
(* under the name, and from then on no validation, registration, factory   *)
(* or hook step is ever made for that definition.                          *)
(***************************************************************************)
C18_MemoisedNameShortCircuits ==
    \A j \in DOMAIN log :
        LET mid  == log[j].module
            seen == MemosBefore(defs[mid].name, j)
        IN  /\ log[j].type = "enter" => seen = {}
            /\ log[j].type = "cached" =>
                   /\ seen # {}
                   /\ log[j].scope = log[CHOOSE e \in seen : \A x \in seen : x <= e].scope
                   /\ \A k \in (j + 1)..Len(log) :
                          log[k].module = mid => log[k].type = "cached"

\* A definition with providers of its own was answered, as an import, with
\* the scope another definition of the same name had memoised; none of its
\* providers was ever registered.
C18_Witness ==
    \E j \in DOMAIN log :
        /\ log[j].type = "cached"
        /\ log[j - 1].type # "createScope"
        /\ OwnerOf(log[j].scope) # log[j].module
        /\ defs[log[j].module].providers # defs[OwnerOf(log[j].scope)].providers
        /\ defs[log[j].module].providers # <<>>
        /\ outcome.status = "returned"

(***************************************************************************)
(* C19.  When a registerModules call returns, the scope of every pair it   *)
(* returns is the scope memoised under the pair's name and holds the local *)
(* provider keys of the module listed at that position and the export keys *)
(* of its direct imports.                                                  *)
(***************************************************************************)
C19_ReturnedScopeIsMemoisedScope ==
    outcome.status = "returned" =>
        \A i \in DOMAIN outcome.value :
            LET m == defs[GivenModules[i]]
            IN  /\ outcome.value[i].name \in DOMAIN moduleScopes
                /\ outcome.value[i].scope = moduleScopes[outcome.value[i].name]
                /\ LocalKeys(m) \cup
                       UNION {Range(defs[m.imports[x]].exports) : x \in DOMAIN m.imports}
                           \subseteq DOMAIN scopes[outcome.value[i].scope]

\* The positions before j at which controller c was handed to onController
\* (and bound to the name of the module it was handed over for).
BindingsBefore(c, j) ==
    {e \in 1..(j - 1) : log[e].type = "onController" /\ log[e].key = c}

\* For the registration started at i and memoised: the positions in the
\* module's controllers list of the controllers that, when their turn comes,
\* are bound to a module of another name.
BoundElsewhere(i) ==
    LET m == defs[log[i].module]
    IN  {x \in DOMAIN m.controllers :
            /\ \A y \in 1..(x - 1) : m.controllers[y] # m.controllers[x]
            /\ \E e \in BindingsBefore(m.controllers[x], MemoOf(i)) :
                   defs[log[e].module].name # m.name}

(***************************************************************************)
(* C20.  With onController configured, for every module M whose providers  *)
(* were registered: if none of its controllers is bound to a module of     *)
(* another name when its turn comes (also when M lists a controller more   *)
(* than once), every entry of M's controllers list is handed to            *)
(* onController and no DuplicateControllerRegistrationError is raised for  *)
(* M; otherwise that error is raised at the first such controller, naming  *)
(* it, M and the module it is bound to.                                    *)
(***************************************************************************)
C20_DuplicateControllerIffBoundElsewhere ==
    \A i \in Attempts :
        LET mid   == log[i].module
            m     == defs[mid]
            threw == /\ outcome.status = "threw"
                     /\ Thrower = mid
                     /\ outcome.error.kind = "DuplicateControllerRegistrationError"
        IN  (options.onController /\ MemoOf(i) # 0) =>
                IF BoundElsewhere(i) = {}
                THEN /\ ~threw
                     /\ HookCalls("onController", mid) =
                            [x \in DOMAIN m.controllers |->
                                <<m.controllers[x], log[MemoOf(i)].scope>>]
                ELSE LET first == CHOOSE x \in BoundElsewhere(i) :
                                      \A y \in BoundElsewhere(i) : x <= y
                     IN  /\ threw
                         /\ outcome.error.keys = <<m.controllers[first]>>
                         /\ outcome.error.module = m.name
                         /\ \E e \in BindingsBefore(m.controllers[first], MemoOf(i)) :
                                defs[log[e].module].name = outcome.error.other
                         /\ Len(HookCalls("onController", mid)) = first - 1

\* The registrations of the last call that were still running when it threw:
\* started, and not memoised.
Unfinished == {i \in Attempts : MemoOf(i) = 0}

\* The registration of the module that threw: its last start in the call.
ThrowerAttempt ==
    CHOOSE i \in Attempts :
        /\ log[i].module = Thrower
        /\ \A j \in Attempts : log[j].module = Thrower => j <= i

HookEvents(mid) ==
    {h \in DOMAIN log : log[h].type \in {"onHandler", "onController"} /\ log[h].module = mid}

\* s is an initial part of t.
IsPrefix(s, t) == Len(s) <= Len(t) /\ s = SubSeq(t, 1, Len(s))

\* The constructors handed to the hook of one kind for module mid, in order.
HandedOver(type, mid) ==
    LET calls == HookCalls(type, mid) IN [i \in DOMAIN calls |-> calls[i][1]]

(***************************************************************************)
(* C22.  For every module M that was registered: every hook call for M     *)
(* comes after M's memoisation and after the registration of every local   *)
(* provider key of M into the memoised scope; the onHandler calls for M    *)
(* all precede its onController calls, each kind in declaration order; the *)
(* scope handed over is the one memoised under M.name and holds every      *)
(* local provider key of M; and every hook call for a module M imports     *)
(* precedes every hook call for M.                                         *)
(***************************************************************************)
C22_HooksAfterRegistrationInOrder ==
    \A j \in DOMAIN log :
        log[j].type = "memo" =>
            LET mid == log[j].module
                m   == defs[mid]
                sc  == log[j].scope
            IN  /\ \A h \in HookEvents(mid) :
                       /\ h > j
                       /\ log[h].scope = sc
                       /\ \A k \in LocalKeys(m) :
                              /\ \E e \in 1..(j - 1) :
                                     /\ log[e].type = "register"
                                     /\ log[e].module = mid
                                     /\ log[e].key = k
                                     /\ log[e].scope = sc
                              /\ k \in DOMAIN scopes[sc]
                /\ \A h1, h2 \in HookEvents(mid) :
                       (log[h1].type = "onHandler" /\ log[h2].type = "onController")
                           => h1 < h2
                /\ IsPrefix(HandedOver("onHandler", mid), m.queryHandlers)
                /\ IsPrefix(HandedOver("onController", mid), m.controllers)
                /\ \A x \in Range(m.imports) :
                       \A hx \in HookEvents(x) : \A h \in HookEvents(mid) : hx < h

(***************************************************************************)
(* C23.  No registration ever reaches the guard in front of a factory      *)
(* call: whenever a module's providers passed graph construction and cycle *)
(* detection, every inject key of each factory is registered in the        *)
(* module's scope when the factory's turn comes, so                        *)
(* UnresolvedInjectedKeyError is never thrown.                             *)
(***************************************************************************)
C23_GuardNeverReached ==
    \A e \in DOMAIN log :
        log[e].type = "throw" => log[e].key # "UnresolvedInjectedKeyError"

\* The modules reached from the set S along n import edges or fewer.
RECURSIVE ReachFrom(_, _)
ReachFrom(S, n) ==
    IF n = 0 THEN S
    ELSE ReachFrom(S \cup UNION {Range(defs[y].imports) : y \in S}, n - 1)

\* The modules x imports, directly or through other modules.
ImportedBy(x) == ReachFrom(Range(defs[x].imports), Len(defs))

OnImportCycle(x) == x \in ImportedBy(x)

\* The modules the last call was given, and everything they import.
ReachedByCall == ReachFrom(Range(log[LastCall].refs), Len(defs))

\* Nothing in m can make its registration throw: its imports have distinct
\* names, none of them exports a local key of m, no provider of m injects
\* anything and m declares no controller.
Faultless(m) ==
    /\ DistinctImportNames(m)
    /\ CollidingKeys(m) = {}
    /\ \A i \in DOMAIN m.providers : m.providers[i].inject = <<>>
    /\ m.controllers = <<>>

(***************************************************************************)
(* C24.  A registerModules call over modules whose import graph has no     *)
(* cycle comes back: it returns or throws.  Over module definitions with   *)
(* distinct names, a module on an import cycle is never memoised and a     *)
(* call that reaches one never returns; when moreover nothing the call     *)
(* reaches can throw, the recursion goes on without end: no error is       *)
(* raised and a module is entered again while it is in progress.           *)
(***************************************************************************)
C24_TerminatesIffNoImportCycle ==
    log # <<>> =>
        LET cyclic == \E x \in ReachedByCall : OnImportCycle(x)
        IN  /\ ~cyclic => outcome.status \in {"returned", "threw"}
            /\ outcome.status = "unbounded" =>
                   /\ cyclic
                   /\ \A e \in InCall : log[e].type # "throw"
                   /\ \E i, j \in Attempts :
                          /\ i < j
                          /\ log[i].module = log[j].module
                          /\ MemoOf(i) = 0
                          /\ OnImportCycle(log[i].module)
            /\ DistinctModuleNames =>
                   /\ \A e \in DOMAIN log :
                          log[e].type = "memo" => ~OnImportCycle(log[e].module)
                   /\ cyclic => outcome.status # "returned"
                   /\ (cyclic /\ \A x \in ReachedByCall : Faultless(defs[x]))
                          => outcome.status = "unbounded"

\* A imports C and B, B imports A: C was registered and memoised, then the
\* recursion through B came back to A and never stopped.
C24_Witness ==
    /\ outcome.status = "unbounded"
    /\ moduleScopes # <<>>
    /\ \A e \in DOMAIN log : log[e].type # "throw"
    /\ \E i, j \in Attempts :
           /\ i < j
           /\ log[i].module = log[j].module
           /\ defs[log[i].module].name \notin DOMAIN moduleScopes

\* Reference Kahn's algorithm over the local providers of m.  The
\* dependents of a key are the providers that inject it, in declaration
\* order; the in-degree of a provider is the number of keys it injects.
DependentsOf(m, dep) ==
    SelectSeq(ProviderKeys(m),
              LAMBDA k : isFactoryProvider(ProviderOf(m, k)) /\ dep \in InjectOf(m, k))

\* One dependent after the other: decrement it, and append it to the queue
\* if that brought it to 0.
RECURSIVE KahnRelease(_, _, _)
KahnRelease(inDegree, dependents, queue) ==
    IF dependents = <<>> THEN [inDegree |-> inDegree, queue |-> queue]
    ELSE LET d    == Head(dependents)
             left == inDegree[d] - 1
         IN  KahnRelease([inDegree EXCEPT ![d] = left], Tail(dependents),
                         IF left = 0 THEN Append(queue, d) ELSE queue)

RECURSIVE KahnLoop(_, _, _, _)
KahnLoop(m, inDegree, queue, result) ==
    IF queue = <<>> THEN result
    ELSE LET released == KahnRelease(inDegree, DependentsOf(m, Head(queue)), Tail(queue))
         IN  KahnLoop(m, released.inDegree, released.queue, Append(result, Head(queue)))

KahnOrder(m) ==
    LET inDegree == [k \in LocalKeys(m) |->
                        IF isFactoryProvider(ProviderOf(m, k))
                        THEN Cardinality(InjectOf(m, k)) ELSE 0]
    IN  KahnLoop(m, inDegree,
                 SelectSeq(ProviderKeys(m), LAMBDA k : inDegree[k] = 0), <<>>)

\* The keys the sorter returns for m (m has no dangling inject key).
SortedKeysOf(m) ==
    LET depsGraph == buildDepGraph(m, initializeDepGraph(m))
    IN  sortProviderKeysTopologically(depsGraph, initializeQueue(depsGraph), <<>>)

(***************************************************************************)
(* C25.  For every module whose registration was started and whose inject  *)
(* keys all name local providers, the key sequence the sorter returns is   *)
(* the one reference Kahn's algorithm with a FIFO queue returns (seeded    *)
(* with the in-degree-0 keys in declaration order, dependents released in  *)
(* declaration order), and no key occurs in it twice.                      *)
(***************************************************************************)
C25_SorterIsReferenceKahn ==
    \A e \in DOMAIN log :
        (log[e].type = "enter" /\ Dangling(defs[log[e].module]) = {}) =>
            LET m      == defs[log[e].module]
                sorted == SortedKeysOf(m)
            IN  /\ sorted = KahnOrder(m)
                /\ \A i, j \in DOMAIN sorted : i # j => sorted[i] # sorted[j]

\* The positions at which a scope was memoised under name, in any call.
MemosUnder(name) ==
    {e \in DOMAIN log : log[e].type = "memo" /\ defs[log[e].module].name = name}

\* The keys registered into scope sc by the events before position j.
KeysWrittenBefore(sc, j) ==
    {log[e].key : e \in {x \in 1..(j - 1) :
                            /\ log[x].type \in {"register", "importExport"}
                            /\ log[x].scope = sc}}

(***************************************************************************)
(* C26.  Whatever calls were made and however they ended: every name that  *)
(* was memoised is still in moduleScopes and maps to the scope it was      *)
(* first memoised with, and that scope holds exactly the registrations it  *)
(* held when it was memoised.                                              *)
(***************************************************************************)
C26_ModuleScopesOnlyGrows ==
    \A e \in DOMAIN log :
        log[e].type = "memo" =>
            LET name  == defs[log[e].module].name
                first == CHOOSE x \in MemosUnder(name) : \A y \in MemosUnder(name) : x <= y
            IN  /\ name \in DOMAIN moduleScopes
                /\ moduleScopes[name] = log[first].scope
                /\ DOMAIN scopes[log[e].scope] = KeysWrittenBefore(log[e].scope, e)
                /\ \A x \in (e + 1)..Len(log) :
                       log[x].type \in {"register", "importExport"}
                           => log[x].scope # log[e].scope

\* The positions at which something was registered into a scope.
Writes == {w \in DOMAIN log : log[w].type \in {"register", "importExport"}}

\* The scope the registration started at i registers into: the one it was
\* handed, or else the one it created next.
OwnScope(i) == IF log[i].scope # 0 THEN log[i].scope ELSE log[i + 1].scope

\* The start of the registration during which position w was logged for
\* module log[w].module.
StartOf(w) ==
    LET starts == {i \in 1..(w - 1) :
                      log[i].type = "enter" /\ log[i].module = log[w].module}
    IN  CHOOSE i \in starts : \A j \in starts : j <= i

(***************************************************************************)
(* C27.  Everything the registration of a module M registers (its local    *)
(* providers and the exports of its imports) goes into M's own scope.      *)
(* Nothing is registered into a scope once it has been memoised, so the    *)
(* keys of an imported module's scope are the same before and after the    *)
(* registration of any importer, and every registration a memoised scope   *)
(* holds was supplied by the scope's own module or by one of that module's *)
(* direct imports, never by a module that imports it.                      *)
(***************************************************************************)
C27_WritesOnlyOwnScope ==
    /\ \A w \in Writes : log[w].scope = OwnScope(StartOf(w))
    /\ \A e \in DOMAIN log :
           log[e].type = "memo" =>
               LET x  == log[e].module
                   sc == log[e].scope
               IN  /\ \A w \in Writes : w > e => log[w].scope # sc
                   /\ DOMAIN scopes[sc] = KeysWrittenBefore(sc, e)
                   /\ \A k \in DOMAIN scopes[sc] :
                          \/ scopes[sc][k].module = x /\ scopes[sc][k].kind # "imported"
                          \/ /\ scopes[sc][k].kind = "imported"
                             /\ scopes[sc][k].module \in Range(defs[x].imports)

\* Module X was registered by an earlier call; the last call registered a
\* module M with local providers that imports X, and X's scope holds none of
\* M's local keys while M's scope holds them all.
C27_Witness ==
    \E i \in Attempts : \E e \in 1..(LastCall - 1) :
        /\ MemoOf(i) # 0
        /\ log[e].type = "memo"
        /\ log[e].module \in Range(defs[log[i].module].imports)
        /\ LocalKeys(defs[log[i].module]) # {}
        /\ LocalKeys(defs[log[i].module]) \cap DOMAIN scopes[log[e].scope] = {}
        /\ LocalKeys(defs[log[i].module]) \subseteq DOMAIN scopes[OwnScope(i)]
        /\ DOMAIN scopes[log[e].scope] # {}

====
